---- MODULE Spec2Model ----
(***************************************************************************)
(* The @dPromise decorator of vue3-native-decorators: one decorated method *)
(* of one instance.  The wrapped callable (makePromise) memoizes the       *)
(* in-flight promise, keeps reactive pending/result/error state, and       *)
(* supports abort() with abort listeners.                                  *)
(*                                                                         *)
(* A step of the model is one synchronous run of JavaScript: an API call   *)
(* made by a caller, the synchronous prefix of the decorated method, or    *)
(* one promise reaction job (microtask).  Callers' code may run between    *)
(* any two reaction jobs, never inside one.                                *)
(***************************************************************************)
EXTENDS Integers, Sequences, FiniteSets

\* ------------------------------------------------------------------ bounds
\* started calls (= invocations of the decorated method) in one behaviour
MaxCalls == 2
\* onAbort registrations in one behaviour
MaxRegs == 2

\* writes of the watched dependency
MaxWrites == 3
\* scopes created in one behaviour
MaxScopes == 4
\* characters of a method name
MaxLen == 4

\* ------------------------------------------------------------------ values
\* Arguments the callers pass.  0 stands for a call without argument.
Args == 0 .. 1

\* JavaScript values that occur: undefined, the method's results, its errors
\* and the error of abort().
Undefined == [kind |-> "undefined", of |-> 0]
AbortError == [kind |-> "AbortError", of |-> 0]

\* The decorated method echoes its argument (test: fetchData(arg) returns
\* arg); called without argument it resolves with undefined.
OpValue(a) == IF a = 0 THEN Undefined ELSE [kind |-> "value", of |-> a]
\* The error the decorated method fails with for argument a.
OpError(a) == [kind |-> "Error", of |-> a]

\* a promise: pending, fulfilled with val or rejected with val
Pending == [st |-> "pending", val |-> Undefined]
Fulfilled(v) == [st |-> "fulfilled", val |-> v]
Rejected(e) == [st |-> "rejected", val |-> e]
Settled(p) == p.st # "pending"

\* a value read through a getter is "present" when it is not undefined
Present(x) == x # Undefined

\* no promise / no function
None == 0

VARIABLES
    isDPromise,      \* the wrapped callable carries the promise object
    promise,         \* promiseObject.promise: id of the in-flight chain or None
    isPending,       \* promiseObject._isPending.value
    error,           \* promiseObject._error.value
    result,          \* promiseObject._result.value
    resolve,         \* promiseObject.resolve: chain whose p0 it resolves, or None
    reject,          \* promiseObject.reject: chain whose p0 it rejects, or None
    abortListeners,  \* promiseObject._abortListeners (registration ids)
    chains,          \* one record per started call: the promise chain it built
    exec,            \* chain whose executor runs the method's synchronous prefix
    fired,           \* listener invocations so far, in order (registration ids)
    nextReg,         \* registrations made so far
    idleRegs,        \* the registrations made while no call was in flight,
                     \* since the latest settlement (kept by SpecRegs only)
    lastCall,        \* the latest makePromise invocation: its arguments and
                     \* the promise it returned
    last,            \* the latest step
    objects,         \* SpecInstances: the promise object of each wrapped
                     \* callable, with the chain of its latest call
    actor,           \* SpecInstances: the instance the latest step acted on
    decl,            \* SpecWatch: the decorator on the watcher method
    microtasks,      \* SpecWatch: the microtask queue, oldest first
    scopes,          \* SpecWatch: the instance's entry in `scopes`, or None
    watcher,         \* SpecWatch: the watch handle of the method
    source,          \* SpecWatch: the value of the watched dependency
    runs,            \* SpecWatch: invocations of the decorated callback
    disposedAt,      \* SpecWatch: `runs` when the latest disposeObjectScope
                     \* returned, or NotDisposed
    pausedAt,        \* SpecWatch: the invocations made or due when the
                     \* latest pauseWatcher returned, or NotPaused after a
                     \* resumeWatcher
    stoppedAt,       \* SpecWatch: `runs` when the latest stopWatcher
                     \* returned, or NotStopped
    registry,        \* SpecScopes: the WeakMap `scopes`, object -> scope
    effectScopes,    \* SpecScopes: the scopes created so far: is it active
    returned,        \* SpecScopes: what the latest makeObjectScope returned
    copy,            \* which copy of the decorators is in use
    sourceFn,        \* SpecDWatch: the `source` of the @dWatch decorator:
                     \* the instance it is bound to, or None
    watched,         \* SpecDWatch: per instance its watched value and its
                     \* watcher
    pendingRegs,     \* SpecDWatch: the instances whose registration is
                     \* queued, oldest first
    invoked,         \* SpecDWatch: the instances whose callback the latest
                     \* step invoked
    methodName,      \* SpecNames: the name of the decorated method
    property,        \* SpecNames: the name the initializer assigned the
                     \* wrapped callable to, if it has run
    lookup,          \* SpecKeyed: the latest call of a name-keyed
                     \* inspection function and what it gave
    promiseObject    \* SpecInitObject: the variable `promiseObject` of the
                     \* initializer's closure: the callable it refers to,
                     \* or None while it is unassigned

vars == <<isDPromise, promise, isPending, error, result, resolve, reject,
          abortListeners, chains, exec, fired, nextReg, idleRegs, lastCall,
          last, objects, actor, decl, microtasks, scopes, watcher, source,
          runs, disposedAt, pausedAt, stoppedAt, registry, effectScopes,
          returned, copy, sourceFn, watched, pendingRegs, invoked, methodName,
          property, lookup, promiseObject>>

handle == <<isDPromise, promise, isPending, error, result, resolve, reject,
            abortListeners>>

\* the instances' promise objects
instances == <<objects, actor>>

\* the watcher of an instance and its scope
watching == <<decl, microtasks, scopes, watcher, source, runs, disposedAt,
              pausedAt, stoppedAt>>

\* the scopes of several objects
scoping == <<registry, effectScopes, returned>>

\* the decorated method's name and the instance's property
naming == <<methodName, property, lookup>>

\* the @dWatch watchers of the instances of one class
watchers == <<sourceFn, watched, pendingRegs, invoked>>

\* the variables of the initializer's closure
closure == <<promiseObject>>

\* what neither the promise objects nor the one watcher are part of
others == <<scoping, copy, watchers, naming, closure>>

\* what is not part of the promise object of the one wrapped callable
outside == <<instances, watching, others>>

ChainIds == 1 .. Len(chains)

\* The calls whose settlement handlers have not all run yet.
Unsettled == {c \in ChainIds : ~chains[c].finalized}

NotDisposed == -1
NotPaused == -1
NotStopped == -1

\* no watcher was created
NoHandle ==
    [made |-> FALSE, active |-> FALSE, queued |-> FALSE, paused |-> FALSE,
     triggered |-> FALSE, seen |-> None]

\* No scope is asked for.
NoScopes ==
    /\ registry = << >>
    /\ effectScopes = << >>
    /\ returned = None

\* the copies of the decorators: src/src/index.ts and src/unnamed/part_005
Copies == {"index.ts", "part_005"}

\* No class with a @dWatch method is instantiated.
NoWatchers ==
    /\ sourceFn = None
    /\ watched = << >>
    /\ pendingRegs = << >>
    /\ invoked = {}

\* the initializer has not assigned the wrapped callable
NotAssigned == [done |-> FALSE, name |-> << >>]

\* No name is looked at.
NoNames == methodName = << >> /\ property = NotAssigned /\ lookup = None

\* Nothing but promise objects and the one watcher is in use.
NoClosure == promiseObject = None

NoOthers == NoScopes /\ copy = "part_005" /\ NoWatchers /\ NoNames /\ NoClosure

\* No instance with a watcher method is constructed.
NoWatcher ==
    /\ decl = [kind |-> "none", flush |-> "sync", immediate |-> FALSE]
    /\ microtasks = << >>
    /\ scopes = None
    /\ watcher = NoHandle
    /\ source = 0
    /\ runs = 0
    /\ disposedAt = NotDisposed
    /\ pausedAt = NotPaused
    /\ stoppedAt = NotStopped

\* dPromiseFunction's initializer: with eagerInit the promise object is
\* assigned at construction, otherwise on the first invocation.
InitObject ==
    /\ isDPromise \in BOOLEAN
    /\ promise = None
    /\ isPending = FALSE
    /\ error = Undefined
    /\ result = Undefined
    /\ resolve = None
    /\ reject = None
    /\ abortListeners = << >>
    /\ chains = << >>
    /\ exec = None
    /\ fired = << >>
    /\ nextReg = 0
    /\ idleRegs = {}
    /\ lastCall = [args |-> 0, ret |-> None]
    /\ last = "other"

\* One instance with one @dPromise method is constructed.
Init ==
    /\ InitObject
    /\ objects = << >>
    /\ actor = None
    /\ NoWatcher
    /\ NoOthers


\* ------------------------------------------------------------ makePromise
\* a makePromise that memoizes by argument identity
InFlightForSameArgs(a) == promise # None /\ chains[promise].args = a

\* a makePromise that never finds a promise in flight
InFlightNever(a) == FALSE

\* `if (promiseObject.promise) return promiseObject.promise`: decided by the
\* stored promise alone, whatever the arguments a of this invocation
InFlightFor(a) == promise # None

\* an executor that does not raise the pending flag, or keeps the previous
\* call's error or result
ExecutorPendingUnset == isPending
ExecutorErrorKept == error
ExecutorResultKept == result

\* what the executor writes before it invokes the decorated method
ExecutorPending == TRUE
ExecutorError == Undefined
ExecutorResult == Undefined

\* A chain is done when the promise makePromise returned has settled and the
\* decorated method has finished: nothing can act on it or observe it later.
Done(ch) == Settled(ch.p3) /\ ch.op \notin {"sync", "running"}

\* the record left of a chain that is done and was dropped
Gone ==
    [args |-> 0, op |-> "gone", p0 |-> Pending, p1 |-> Pending,
     p2 |-> Pending, p3 |-> Pending, finalized |-> TRUE, aborted |-> FALSE]

\* Drops the chains that are done, except chain `keep` (the latest call, whose
\* outcome its awaiters are reading).
Forget(cs, keep) ==
    [c \in DOMAIN cs |-> IF c # keep /\ Done(cs[c]) THEN Gone ELSE cs[c]]

NewChain(a) ==
    [args |-> a, op |-> "sync", p0 |-> Pending, p1 |-> Pending,
     p2 |-> Pending, p3 |-> Pending, finalized |-> FALSE, aborted |-> FALSE]

\* makePromise(a) up to the invocation of the decorated method: either the
\* in-flight promise is returned, or the executor starts a new call.
StartOrJoinOf(a) ==
    IF InFlightFor(a)
    THEN /\ lastCall' = [args |-> a, ret |-> promise]
         /\ isDPromise' = TRUE
         /\ last' = "call"
         /\ UNCHANGED <<promise, isPending, error, result, resolve, reject,
                        abortListeners, chains, exec, fired, nextReg, idleRegs>>
    ELSE /\ Len(chains) < MaxCalls
         /\ isDPromise' = TRUE
         /\ isPending' = ExecutorPending
         /\ error' = ExecutorError
         /\ result' = ExecutorResult
         /\ resolve' = Len(chains) + 1
         /\ reject' = Len(chains) + 1
         /\ chains' = Append(Forget(chains, None), NewChain(a))
         /\ exec' = Len(chains) + 1
         /\ lastCall' = [args |-> a, ret |-> None]
         /\ last' = "executor"
         /\ UNCHANGED <<promise, abortListeners, fired, nextReg, idleRegs>>

StartOrJoin(a) == StartOrJoinOf(a) /\ UNCHANGED outside

\* makePromise(a) invoked by callers, between two runs (exec = None); while
\* the executor runs, the decorated method's synchronous prefix may register
\* listeners and abort, and then returns or throws.
MakePromise(a) == exec = None /\ StartOrJoin(a)

\* makePromise(a) invoked by the decorated method itself, from its
\* synchronous prefix, on its own handle (a recursive method).
Reenter(a) == exec # None /\ StartOrJoin(a)

\* The executor that goes on when the executor of chain c is left: the one of
\* the call that was being started when c was started, if any.
Outer(c) ==
    IF \E d \in 1 .. (c - 1) : chains[d].op = "sync"
    THEN CHOOSE d \in 1 .. (c - 1) :
            /\ chains[d].op = "sync"
            /\ \A e \in (d + 1) .. (c - 1) : chains[e].op # "sync"
    ELSE None

\* The decorated method returns its promise: `.then(resolve, reject)` is
\* attached to it, the chain then/catch/finally is built and stored, and
\* makePromise returns it.
OpReturns ==
    /\ exec # None
    /\ chains' = [chains EXCEPT ![exec].op = "running"]
    /\ promise' = exec
    /\ lastCall' = [lastCall EXCEPT !.ret = exec]
    /\ exec' = Outer(exec)
    /\ last' = "call"
    /\ UNCHANGED <<isDPromise, isPending, error, result, resolve, reject,
                   abortListeners, fired, nextReg, idleRegs, outside>>

\* The decorated method throws synchronously: the executor's exception
\* rejects p0 (unless it is settled already).
OpThrows ==
    /\ exec # None
    /\ chains' = [chains EXCEPT
           ![exec].op = "threw",
           ![exec].p0 = IF Settled(@) THEN @ ELSE Rejected(OpError(chains[exec].args))]
    /\ promise' = exec
    /\ lastCall' = [lastCall EXCEPT !.ret = exec]
    /\ exec' = Outer(exec)
    /\ last' = "call"
    /\ UNCHANGED <<isDPromise, isPending, error, result, resolve, reject,
                   abortListeners, fired, nextReg, idleRegs, outside>>

\* ------------------------------------------------------- onAbort / abort
\* a guard that lets every callable through, and one that lets none through
HasPromiseObjectAlways == TRUE
HasPromiseObjectNever == FALSE

\* `if (!('_isDPromise' in method) || !method._isDPromise) throw new
\* Error('Promise object not found')`: the guard of abort, onAbort,
\* isPromisePending, getPromiseError and getPromiseResult
HasPromiseObject == isDPromise

\* no call is in flight and none is being started
Idle == promise = None /\ exec = None

\* onAbort(method, listener): throws 'Promise object not found' on a callable
\* without promise object, otherwise pushes the listener.
PushListener ==
    IF ~HasPromiseObject
    THEN /\ last' = "throw"
         /\ UNCHANGED <<handle, chains, exec, fired, nextReg, lastCall,
                        outside>>
    ELSE /\ nextReg < MaxRegs
         /\ abortListeners' = Append(abortListeners, nextReg + 1)
         /\ nextReg' = nextReg + 1
         /\ last' = "other"
         /\ UNCHANGED <<isDPromise, promise, isPending, error, result, resolve,
                        reject, chains, exec, fired, lastCall, outside>>

OnAbort == PushListener /\ UNCHANGED idleRegs

\* onAbort, with the record of the registrations made on the idle handle
OnAbortRecorded ==
    /\ PushListener
    /\ idleRegs' = IF Idle /\ nextReg' # nextReg
                   THEN idleRegs \cup {nextReg'}
                   ELSE idleRegs

\* an abortPromise that leaves the listeners registered
ListenersKept == abortListeners

\* an abortPromise that empties the list before it walks through it
FiredByNone(listeners) == << >>

\* `_abortListeners.forEach((listener) => listener())`: the invocations made
FiredBy(listeners) == listeners
\* `_abortListeners.length = 0`
ClearedListeners == << >>
\* `reject?.(new AbortError())` on the promise the stored reject belongs to
RejectWith(p, e) == IF Settled(p) THEN p ELSE Rejected(e)

\* an abortPromise without its early return
AbortNeverSkips == FALSE

\* `if (!promiseObject.isPending) return`
AbortSkips == ~isPending

\* abort(method): throws on a callable without promise object; a no-op when
\* nothing is pending; otherwise abortPromise.
Abort ==
    IF ~HasPromiseObject
    THEN /\ last' = "throw"
         /\ UNCHANGED <<handle, chains, exec, fired, nextReg, idleRegs, lastCall,
                        outside>>
    ELSE /\ last' = "abort"
         /\ IF AbortSkips
            THEN UNCHANGED <<handle, chains, exec, fired, nextReg, idleRegs, lastCall,
                             outside>>
            ELSE /\ fired' = fired \o FiredBy(abortListeners)
                 /\ abortListeners' = ClearedListeners
                 /\ chains' = IF reject = None THEN chains
                              ELSE [chains EXCEPT
                                      ![reject].p0 = RejectWith(@, AbortError),
                                      ![reject].aborted = TRUE]
                 /\ UNCHANGED <<isDPromise, promise, isPending, error, result,
                                resolve, reject, exec, nextReg, idleRegs, lastCall, outside>>

\* ------------------------------------------------------------ inspection
\* what the getters of the promise object return
IsPendingGetter == isPending
ErrorGetter == error
ResultGetter == result

\* isPromisePending(method), getPromiseError(method), getPromiseResult(method):
\* each throws 'Promise object not found' on a callable without promise
\* object and otherwise returns what the getter returns; none writes.
IsPromisePending ==
    /\ last' = IF HasPromiseObject THEN "read" ELSE "readThrow"
    /\ UNCHANGED <<handle, chains, exec, fired, nextReg, idleRegs, lastCall,
                   outside>>

GetPromiseError ==
    /\ last' = IF HasPromiseObject THEN "read" ELSE "readThrow"
    /\ UNCHANGED <<handle, chains, exec, fired, nextReg, idleRegs, lastCall,
                   outside>>

GetPromiseResult ==
    /\ last' = IF HasPromiseObject THEN "read" ELSE "readThrow"
    /\ UNCHANGED <<handle, chains, exec, fired, nextReg, idleRegs, lastCall,
                   outside>>

\* ------------------------------------------------- the decorated method
\* a settlement that goes through the resolve and reject the handle holds
CapturedByHandle(c) == IF resolve = None THEN c ELSE resolve

\* `target.call(this, ...args).then(resolve, reject)`: the reactions are the
\* resolve and reject of the promise whose executor made the call.
Captured(c) == c

\* The promise the method returned fulfils; the reaction `resolve` runs.
OpResolves(c) ==
    /\ exec = None
    /\ chains[c].op = "running"
    /\ chains' = Forget([[chains EXCEPT ![c].op = "resolved"] EXCEPT
           ![Captured(c)].p0 =
               IF Settled(@) THEN @ ELSE Fulfilled(OpValue(chains[c].args))],
           Len(chains))
    /\ last' = "settle"
    /\ UNCHANGED <<handle, exec, fired, nextReg, idleRegs, lastCall, outside>>

\* The promise the method returned rejects; the reaction `reject` runs.
OpRejects(c) ==
    /\ exec = None
    /\ chains[c].op = "running"
    /\ chains' = Forget([[chains EXCEPT ![c].op = "rejected"] EXCEPT
           ![Captured(c)].p0 = RejectWith(@, OpError(chains[c].args))],
           Len(chains))
    /\ last' = "settle"
    /\ UNCHANGED <<handle, exec, fired, nextReg, idleRegs, lastCall, outside>>

\* ------------------------------------------------- settlement handlers
\* a then-handler that does not return the result
ThenReturnsNothing(v) == Undefined

\* `.then((result) => { promiseObject._result.value = result; return result })`
ThenResult(v) == v
ThenReturn(v) == v

ThenStep(c) ==
    /\ exec = None
    /\ chains[c].op # "sync"
    /\ Settled(chains[c].p0)
    /\ ~Settled(chains[c].p1)
    /\ IF chains[c].p0.st = "fulfilled"
       THEN /\ result' = ThenResult(chains[c].p0.val)
            /\ chains' = [chains EXCEPT ![c].p1 = Fulfilled(ThenReturn(chains[c].p0.val))]
       ELSE /\ result' = result
            /\ chains' = [chains EXCEPT ![c].p1 = chains[c].p0]
    /\ last' = "other"
    /\ UNCHANGED <<isDPromise, promise, isPending, error, resolve, reject,
                   abortListeners, exec, fired, nextReg, idleRegs, lastCall, outside>>

\* a catch-handler that does not rethrow
CatchSwallows(e) == Fulfilled(Undefined)

\* a catch-handler that reports every failure as an abort
CatchThrowsAbortError(e) == Rejected(AbortError)

\* `.catch((error) => { promiseObject._error.value = error; throw error })`
CatchError(e) == e
CatchOutcome(e) == Rejected(e)

CatchStep(c) ==
    /\ exec = None
    /\ Settled(chains[c].p1)
    /\ ~Settled(chains[c].p2)
    /\ IF chains[c].p1.st = "rejected"
       THEN /\ error' = CatchError(chains[c].p1.val)
            /\ chains' = [chains EXCEPT ![c].p2 = CatchOutcome(chains[c].p1.val)]
       ELSE /\ error' = error
            /\ chains' = [chains EXCEPT ![c].p2 = chains[c].p1]
    /\ last' = "other"
    /\ UNCHANGED <<isDPromise, promise, isPending, result, resolve, reject,
                   abortListeners, exec, fired, nextReg, idleRegs, lastCall, outside>>

\* Reaction jobs run first in, first out: the jobs that settle the promise an
\* earlier call returned were queued by its `finally` job, before the call
\* that followed it started, and are fewer than the jobs of this chain.  (An
\* earlier call whose `finally` job has not run yet was started by a method
\* that re-entered its handle, and orders nothing.)
EarlierSettled(c) ==
    \A d \in 1 .. (c - 1) :
        chains[d].op = "gone" \/ Settled(chains[d].p3) \/ ~chains[d].finalized

\* `.finally(() => { promise = undefined; resolve = undefined;
\*    reject = undefined; _abortListeners.length = 0; _isPending = false })`
FinallyPromise == None
FinallyListeners == << >>
FinallyPending == FALSE

Finalize(c) ==
    /\ exec = None
    /\ Settled(chains[c].p2)
    /\ ~chains[c].finalized
    /\ EarlierSettled(c)
    /\ promise' = FinallyPromise
    /\ resolve' = None
    /\ reject' = None
    /\ abortListeners' = FinallyListeners
    /\ isPending' = FinallyPending
    /\ chains' = [chains EXCEPT ![c].finalized = TRUE]
    /\ last' = "other"
    /\ UNCHANGED <<isDPromise, error, result, exec, fired, nextReg, lastCall,
                   outside>>

FinallyStep(c) == Finalize(c) /\ UNCHANGED idleRegs

\* the finally handler, after which no registration of the idle handle is
\* left
FinallyRecorded(c) == Finalize(c) /\ idleRegs' = {}

\* The promise makePromise returned settles as the promise `finally` was
\* called on did; its awaiters resume.
FutureSettles(c) ==
    /\ exec = None
    /\ chains[c].op # "gone"
    /\ chains[c].finalized
    /\ ~Settled(chains[c].p3)
    /\ chains' = Forget([chains EXCEPT ![c].p3 = chains[c].p2], Len(chains))
    /\ last' = "other"
    /\ UNCHANGED <<handle, exec, fired, nextReg, idleRegs, lastCall, outside>>

Next ==
    \/ \E a \in Args : MakePromise(a)
    \/ OpReturns
    \/ OpThrows
    \/ OnAbort
    \/ Abort
    \/ \E c \in ChainIds : OpResolves(c)
    \/ \E c \in ChainIds : OpRejects(c)
    \/ \E c \in ChainIds : ThenStep(c)
    \/ \E c \in ChainIds : CatchStep(c)
    \/ \E c \in ChainIds : FinallyStep(c)
    \/ \E c \in ChainIds : FutureSettles(c)

Spec == Init /\ [][Next]_vars

\* The same steps, with the record of the registrations made on the idle
\* handle.
NextRecorded ==
    \/ \E a \in Args : MakePromise(a)
    \/ OpReturns
    \/ OpThrows
    \/ OnAbortRecorded
    \/ Abort
    \/ \E c \in ChainIds : OpResolves(c)
    \/ \E c \in ChainIds : OpRejects(c)
    \/ \E c \in ChainIds : ThenStep(c)
    \/ \E c \in ChainIds : CatchStep(c)
    \/ \E c \in ChainIds : FinallyRecorded(c)
    \/ \E c \in ChainIds : FutureSettles(c)

SpecRecorded == Init /\ [][NextRecorded]_vars

\* The callers also read the state through the inspection functions.
NextInspect ==
    \/ Next
    \/ IsPromisePending
    \/ GetPromiseError
    \/ GetPromiseResult

SpecInspect == Init /\ [][NextInspect]_vars

\* The decorated method may also invoke its own wrapped callable before it
\* returns.
NextReentrant ==
    \/ Next
    \/ \E a \in Args : Reenter(a)

SpecReentrant == Init /\ [][NextReentrant]_vars

\* abort(method) in which the k-th registered listener throws: `forEach`
\* has invoked the listeners up to that one and passes the exception on, out
\* of abortPromise and abort; the statements after `forEach` are not reached.
\* (The record of the invocations is kept within MaxRegs entries.)
AbortThrowing(k) ==
    /\ HasPromiseObject
    /\ ~AbortSkips
    /\ k \in 1 .. Len(abortListeners)
    /\ Len(fired) + k <= MaxRegs
    /\ fired' = fired \o SubSeq(FiredBy(abortListeners), 1, k)
    /\ last' = "abortThrew"
    /\ UNCHANGED <<handle, chains, exec, nextReg, idleRegs, lastCall, outside>>

\* The listeners registered with onAbort may throw.
NextThrowing ==
    \/ Next
    \/ \E k \in 1 .. MaxRegs : AbortThrowing(k)

SpecThrowing == Init /\ [][NextThrowing]_vars

\* A synchronous run ends and a queued reaction job runs: the decorated
\* method's synchronous prefix returns or throws, and the then, catch and
\* finally handlers and the reactions of the returned promise are run by the
\* microtask queue. When the decorated method's own promise settles, and
\* what the callers do, is not up to the handle.
Scheduling ==
    /\ WF_vars(OpReturns \/ OpThrows)
    /\ WF_vars(\E c \in ChainIds : ThenStep(c))
    /\ WF_vars(\E c \in ChainIds : CatchStep(c))
    /\ WF_vars(\E c \in ChainIds : FinallyStep(c))
    /\ WF_vars(\E c \in ChainIds : FutureSettles(c))

SpecFair == Init /\ [][Next]_vars /\ Scheduling

SpecThrowingFair == Init /\ [][NextThrowing]_vars /\ Scheduling

\* ------------------------------------------------------ initPromiseObject
\* The callers may also apply initPromiseObject to the wrapped callable.
\* What Spec takes as one, the callable that carries a promise object
\* (isDPromise) and the closure's `promiseObject` that refers to it, are two
\* things here: initPromiseObject assigns the promise object to the callable
\* and returns it, the closure's variable is assigned by the initializer
\* (eagerInit) or by makePromise only.
\* the wrapped callable makePromise of the one instance
WrappedCallable == 1

InitClosure ==
    /\ InitObject
    /\ objects = << >>
    /\ actor = None
    /\ NoWatcher
    /\ NoScopes
    /\ copy = "part_005"
    /\ NoWatchers
    /\ NoNames
    /\ promiseObject = IF isDPromise THEN WrappedCallable ELSE None

\* assignPromiseObject on a callable: `Object.defineProperty(promiseObject,
\* 'isPending', { get() {...}, enumerable: false, configurable: false })`
\* defines the getter on a callable without it; on a callable that has it
\* from an earlier assignPromiseObject it is the redefinition of a
\* non-configurable property with another getter function, which throws a
\* TypeError.
RedefinitionThrows == isDPromise

\* assignPromiseObject, up to the first defineProperty: Object.assign gives
\* the callable `_isDPromise: true`, no promise, new refs for pending, error
\* and result, no resolve and reject, and an empty list of listeners.
Assigned ==
    /\ isDPromise' = TRUE
    /\ promise' = None
    /\ isPending' = FALSE
    /\ error' = Undefined
    /\ result' = Undefined
    /\ resolve' = None
    /\ reject' = None
    /\ abortListeners' = << >>

\* initPromiseObject(method) == assignPromiseObject(method). The callers
\* apply it to a callable that was not invoked yet.
InitPromiseObject ==
    /\ chains = << >>
    /\ Assigned
    /\ last' = IF RedefinitionThrows THEN "initThrew" ELSE "init"
    /\ UNCHANGED <<chains, exec, fired, nextReg, idleRegs, lastCall, outside>>

\* makePromise(a) invoked by callers: `if (!promiseObject) { promiseObject =
\* assignPromiseObject(makePromise) }` comes first; when assignPromiseObject
\* throws, so does makePromise, and the closure's variable stays unassigned.
Invoke(a) ==
    /\ exec = None
    /\ IF promiseObject = None /\ RedefinitionThrows
       THEN /\ Assigned
            /\ last' = "callThrew"
            /\ UNCHANGED <<chains, exec, fired, nextReg, idleRegs, lastCall,
                           outside>>
       ELSE /\ StartOrJoinOf(a)
            /\ promiseObject' = WrappedCallable
            /\ UNCHANGED <<instances, watching, scoping, copy, watchers,
                           naming>>

NextInitObject ==
    \/ \E a \in Args : Invoke(a)
    \/ InitPromiseObject
    \/ OpReturns
    \/ OpThrows
    \/ OnAbort
    \/ Abort
    \/ \E c \in ChainIds : OpResolves(c)
    \/ \E c \in ChainIds : OpRejects(c)
    \/ \E c \in ChainIds : ThenStep(c)
    \/ \E c \in ChainIds : CatchStep(c)
    \/ \E c \in ChainIds : FinallyStep(c)
    \/ \E c \in ChainIds : FutureSettles(c)

SpecInitObject == InitClosure /\ [][NextInitObject]_vars

\* ------------------------------------------------------------ instances
\* Several instances of the class, each with its own wrapped callable. The
\* decorated method returns its promise or throws at once and does not touch
\* a handle before it does, so that a call is one step; of a callable's
\* calls only the latest has a chain that can still write its promise object
\* (an earlier one has run its finally handler), and only that chain is kept.
Instances == 1 .. 2

\* a decorator that assigns the promise object to the decorated method
\* itself, which all instances share
TargetOf(i) == 0

\* The callable that carries the promise object of instance i: the
\* makePromise closure its initializer created (`this[name] = makePromise`).
MethodOf(i) == i

Callables == {MethodOf(i) : i \in Instances}

NoChain ==
    [args |-> 0, op |-> "none", p0 |-> Pending, p1 |-> Pending,
     p2 |-> Pending, finalized |-> TRUE]

\* assignPromiseObject: the promise object as it is created; without
\* eagerInit the callable has none before its first invocation.
InitialObject(eager) ==
    [isDPromise |-> eager, promise |-> None, isPending |-> FALSE,
     error |-> Undefined, result |-> Undefined, reject |-> None,
     abortListeners |-> << >>, chain |-> NoChain]

\* All instances are constructed; the class is decorated once, so that its
\* instances are all initialised eagerly (isDPromise) or all lazily.
InitInstances ==
    /\ InitObject
    /\ objects = [k \in Callables |-> InitialObject(isDPromise)]
    /\ actor = None
    /\ NoWatcher
    /\ NoOthers

\* the promise of the one chain kept for a callable
ThePromise == 1

\* makePromise(a) on instance i, through the return of the promise.
CallOn(i, a, throws) ==
    LET k == MethodOf(i)
        o == objects[k]
    IN  /\ actor' = i
        /\ IF o.promise # None
           THEN /\ last' = "joined"
                /\ UNCHANGED objects
           ELSE /\ objects' = [objects EXCEPT ![k] =
                       [isDPromise |-> TRUE,
                        promise |-> ThePromise,
                        isPending |-> ExecutorPending,
                        error |-> ExecutorError,
                        result |-> ExecutorResult,
                        reject |-> ThePromise,
                        abortListeners |-> o.abortListeners,
                        chain |-> [args |-> a,
                                   op |-> IF throws THEN "threw" ELSE "running",
                                   p0 |-> IF throws THEN Rejected(OpError(a))
                                                    ELSE Pending,
                                   p1 |-> Pending, p2 |-> Pending,
                                   finalized |-> FALSE]]]
                /\ last' = "started"
        /\ UNCHANGED <<handle, chains, exec, fired, nextReg, idleRegs,
                       lastCall, watching, others>>

\* onAbort on the method of instance i
OnAbortOn(i) ==
    LET k == MethodOf(i)
        o == objects[k]
    IN  /\ actor' = i
        /\ last' = "other"
        /\ IF ~o.isDPromise
           THEN UNCHANGED <<objects, nextReg>>
           ELSE /\ nextReg < MaxRegs
                /\ objects' = [objects EXCEPT ![k].abortListeners =
                                   Append(o.abortListeners, nextReg + 1)]
                /\ nextReg' = nextReg + 1
        /\ UNCHANGED <<handle, chains, exec, fired, idleRegs, lastCall,
                       watching, others>>

\* abort on the method of instance i: throws without promise object, does
\* nothing unless pending, and otherwise empties the listeners and rejects
\* the promise in flight (the listeners' invocations are not recorded here)
AbortOn(i) ==
    LET k == MethodOf(i)
        o == objects[k]
    IN  /\ actor' = i
        /\ last' = "other"
        /\ objects' =
               IF ~o.isDPromise \/ ~o.isPending
               THEN objects
               ELSE [objects EXCEPT
                        ![k].abortListeners = ClearedListeners,
                        ![k].chain.p0 = IF o.reject = None THEN @
                                        ELSE RejectWith(@, AbortError)]
        /\ UNCHANGED <<handle, chains, exec, fired, nextReg, idleRegs,
                       lastCall, watching, others>>

\* the promise the method of instance i returned settles
OpSettlesOn(i, ok) ==
    LET k == MethodOf(i)
        o == objects[k]
    IN  /\ o.chain.op = "running"
        /\ actor' = i
        /\ objects' = [objects EXCEPT
               ![k].chain.op = "settled",
               ![k].chain.p0 =
                   IF Settled(@) THEN @
                   ELSE IF ok THEN Fulfilled(OpValue(o.chain.args))
                              ELSE Rejected(OpError(o.chain.args))]
        /\ last' = "other"
        /\ UNCHANGED <<handle, chains, exec, fired, nextReg, idleRegs,
                       lastCall, watching, others>>

\* the then handler of the chain of instance i
ThenOn(i) ==
    LET k == MethodOf(i)
        o == objects[k]
    IN  /\ Settled(o.chain.p0)
        /\ ~Settled(o.chain.p1)
        /\ actor' = i
        /\ objects' =
               IF o.chain.p0.st = "fulfilled"
               THEN [objects EXCEPT
                        ![k].result = ThenResult(o.chain.p0.val),
                        ![k].chain.p1 = Fulfilled(ThenReturn(o.chain.p0.val))]
               ELSE [objects EXCEPT ![k].chain.p1 = o.chain.p0]
        /\ last' = "other"
        /\ UNCHANGED <<handle, chains, exec, fired, nextReg, idleRegs,
                       lastCall, watching, others>>

\* the catch handler of the chain of instance i
CatchOn(i) ==
    LET k == MethodOf(i)
        o == objects[k]
    IN  /\ Settled(o.chain.p1)
        /\ ~Settled(o.chain.p2)
        /\ actor' = i
        /\ objects' =
               IF o.chain.p1.st = "rejected"
               THEN [objects EXCEPT
                        ![k].error = CatchError(o.chain.p1.val),
                        ![k].chain.p2 = CatchOutcome(o.chain.p1.val)]
               ELSE [objects EXCEPT ![k].chain.p2 = o.chain.p1]
        /\ last' = "other"
        /\ UNCHANGED <<handle, chains, exec, fired, nextReg, idleRegs,
                       lastCall, watching, others>>

\* the finally handler of the chain of instance i
FinallyOn(i) ==
    LET k == MethodOf(i)
        o == objects[k]
    IN  /\ Settled(o.chain.p2)
        /\ ~o.chain.finalized
        /\ actor' = i
        /\ objects' = [objects EXCEPT
               ![k].promise = FinallyPromise,
               ![k].reject = None,
               ![k].abortListeners = FinallyListeners,
               ![k].isPending = FinallyPending,
               ![k].chain.finalized = TRUE]
        /\ last' = "other"
        /\ UNCHANGED <<handle, chains, exec, fired, nextReg, idleRegs,
                       lastCall, watching, others>>

NextInstances ==
    \/ \E i \in Instances, a \in Args, throws \in BOOLEAN : CallOn(i, a, throws)
    \/ \E i \in Instances : OnAbortOn(i)
    \/ \E i \in Instances : AbortOn(i)
    \/ \E i \in Instances, ok \in BOOLEAN : OpSettlesOn(i, ok)
    \/ \E i \in Instances : ThenOn(i)
    \/ \E i \in Instances : CatchOn(i)
    \/ \E i \in Instances : FinallyOn(i)

SpecInstances == InitInstances /\ [][NextInstances]_vars

\* ------------------------------------------------------------ watchers
\* One instance with one @dEffect or @dWatch method and one reactive
\* dependency the callback reads. The callback of watchEffect runs when the
\* watcher is created and after a change, at once with flush 'sync' and in
\* a queued job with flush 'pre'; the callback of watch runs after a change,
\* at once, and when the watcher is created with `immediate`.
Decls ==
    {[kind |-> "dEffect", flush |-> "pre", immediate |-> TRUE],
     [kind |-> "dEffect", flush |-> "sync", immediate |-> TRUE],
     [kind |-> "dWatch", flush |-> "sync", immediate |-> FALSE],
     [kind |-> "dWatch", flush |-> "sync", immediate |-> TRUE]}

\* the scope effectScope() returns to the one registration
EffectScope == 1

\* The instance is constructed: the decorator's initializer has queued the
\* registration of the watcher.
InitWatch ==
    /\ InitObject
    /\ ~isDPromise
    /\ objects = << >>
    /\ actor = None
    /\ decl \in Decls
    /\ microtasks = <<"register">>
    /\ scopes = None
    /\ watcher = NoHandle
    /\ source = 0
    /\ runs = 0
    /\ disposedAt = NotDisposed
    /\ pausedAt = NotPaused
    /\ stoppedAt = NotStopped
    /\ NoOthers

\* what the callers recorded when dispose, pause and stop returned
marks == <<disposedAt, pausedAt, stoppedAt>>

\* a watcher that waits for the first change
NeverOnCreation == FALSE

\* watchEffect, and watch with `immediate`, invoke the callback when the
\* watcher is created
RunsOnCreation == decl.immediate

\* The queued registration runs: makeObjectScope(this), and within the scope
\* watchEffect or watch, whose handle setWatcher stores. The getter reads the
\* dependency, and the callback is invoked at once for watchEffect and for
\* watch with `immediate`.
Register ==
    /\ microtasks # << >>
    /\ Head(microtasks) = "register"
    /\ microtasks' = Tail(microtasks)
    /\ scopes' = IF scopes = None THEN EffectScope ELSE scopes
    /\ watcher' = [made |-> TRUE, active |-> TRUE, queued |-> FALSE,
                   paused |-> FALSE, triggered |-> FALSE, seen |-> source]
    /\ runs' = IF RunsOnCreation THEN runs + 1 ELSE runs
    /\ UNCHANGED <<handle, chains, exec, fired, nextReg, idleRegs, lastCall,
                   last, instances, others, decl, source, marks>>

\* The dependency is written: a stopped watcher is not notified, a paused
\* one remembers that it was triggered, and an active one invokes the
\* callback at once (flush 'sync') or queues its job unless it is queued.
Write ==
    /\ source < MaxWrites
    /\ source' = source + 1
    /\ IF ~watcher.active
       THEN UNCHANGED <<runs, microtasks, watcher>>
       ELSE IF watcher.paused
       THEN /\ watcher' = [watcher EXCEPT !.triggered = TRUE]
            /\ UNCHANGED <<runs, microtasks>>
       ELSE IF decl.flush = "sync"
       THEN /\ runs' = runs + 1
            /\ watcher' = [watcher EXCEPT !.seen = source']
            /\ UNCHANGED microtasks
       ELSE IF watcher.queued
       THEN UNCHANGED <<runs, microtasks, watcher>>
       ELSE /\ microtasks' = Append(microtasks, "flush")
            /\ watcher' = [watcher EXCEPT !.queued = TRUE]
            /\ UNCHANGED runs
    /\ UNCHANGED <<handle, chains, exec, fired, nextReg, idleRegs, lastCall,
                   last, instances, others, decl, scopes, marks>>

\* The queued job of the watcher runs; the job of a stopped watcher does
\* nothing.
FlushJob ==
    /\ microtasks # << >>
    /\ Head(microtasks) = "flush"
    /\ microtasks' = Tail(microtasks)
    /\ watcher' = IF watcher.active
                  THEN [watcher EXCEPT !.queued = FALSE, !.seen = source]
                  ELSE [watcher EXCEPT !.queued = FALSE]
    /\ runs' = IF watcher.active THEN runs + 1 ELSE runs
    /\ UNCHANGED <<handle, chains, exec, fired, nextReg, idleRegs, lastCall,
                   last, instances, others, decl, scopes, source, marks>>

\* disposeObjectScope(instance): stops the scope stored for the instance,
\* and with it the watchers created in it, and deletes the entry; without an
\* entry it does nothing.
DisposeObjectScope ==
    /\ IF scopes = None
       THEN UNCHANGED <<scopes, watcher>>
       ELSE /\ scopes' = None
            /\ watcher' = [watcher EXCEPT !.active = FALSE]
    /\ disposedAt' = runs
    /\ UNCHANGED <<handle, chains, exec, fired, nextReg, idleRegs, lastCall,
                   last, instances, others, decl, microtasks, source, runs,
                   pausedAt, stoppedAt>>

\* the handle setWatcher stored for the method, if the registration has run
HasWatchHandle == watcher.made

\* the invocations that are due to what happened before now: the one the
\* queued registration makes at once, and the one of the queued job
Due ==
    (IF microtasks # << >> /\ Head(microtasks) = "register" /\ decl.immediate
     THEN 1 ELSE 0)
    + (IF watcher.queued /\ watcher.active THEN 1 ELSE 0)

\* pauseWatcher(instance, name): pauses the stored handle, if there is one.
PauseWatcher ==
    /\ watcher' = IF HasWatchHandle THEN [watcher EXCEPT !.paused = TRUE]
                                    ELSE watcher
    /\ pausedAt' = runs + Due
    /\ UNCHANGED <<handle, chains, exec, fired, nextReg, idleRegs, lastCall,
                   last, instances, others, decl, microtasks, scopes, source, runs,
                   disposedAt, stoppedAt>>

\* resumeWatcher(instance, name): resumes the stored handle, if there is
\* one; a watcher that was triggered while paused is triggered now.
ResumeWatcher ==
    /\ pausedAt' = NotPaused
    /\ IF ~HasWatchHandle \/ ~watcher.paused
       THEN UNCHANGED <<watcher, runs, microtasks>>
       ELSE IF ~(watcher.triggered /\ watcher.active)
       THEN /\ watcher' = [watcher EXCEPT !.paused = FALSE,
                                          !.triggered = FALSE]
            /\ UNCHANGED <<runs, microtasks>>
       ELSE IF decl.flush = "sync"
       THEN /\ runs' = runs + 1
            /\ watcher' = [watcher EXCEPT !.paused = FALSE,
                                          !.triggered = FALSE,
                                          !.seen = source]
            /\ UNCHANGED microtasks
       ELSE /\ microtasks' = IF watcher.queued THEN microtasks
                             ELSE Append(microtasks, "flush")
            /\ watcher' = [watcher EXCEPT !.paused = FALSE,
                                          !.triggered = FALSE,
                                          !.queued = TRUE]
            /\ UNCHANGED runs
    /\ UNCHANGED <<handle, chains, exec, fired, nextReg, idleRegs, lastCall,
                   last, instances, others, decl, scopes, source, disposedAt,
                   stoppedAt>>

\* stopWatcher(instance, name): stops the stored handle, if there is one.
StopWatcher ==
    /\ watcher' = IF HasWatchHandle THEN [watcher EXCEPT !.active = FALSE]
                                    ELSE watcher
    /\ stoppedAt' = runs
    /\ UNCHANGED <<handle, chains, exec, fired, nextReg, idleRegs, lastCall,
                   last, instances, others, decl, microtasks, scopes, source, runs,
                   disposedAt, pausedAt>>

NextWatch ==
    \/ Register
    \/ Write
    \/ FlushJob
    \/ DisposeObjectScope
    \/ PauseWatcher
    \/ ResumeWatcher
    \/ StopWatcher

SpecWatch == InitWatch /\ [][NextWatch]_vars

\* The microtask queue is drained: a queued registration and a queued job
\* run eventually.
SpecWatchFair ==
    /\ InitWatch
    /\ [][NextWatch]_vars
    /\ WF_vars(Register)
    /\ WF_vars(FlushJob)

\* ------------------------------------------------------------ scopes
\* Callers ask for the scopes of several objects and dispose them.
Objects == 1 .. 3

\* what the promise objects and the one watcher are made of, but the latest
\* step and the object it acted on
idle == <<handle, chains, exec, fired, nextReg, idleRegs, lastCall, objects,
          watching, copy, watchers, naming, closure>>

InitScopes ==
    /\ InitObject
    /\ ~isDPromise
    /\ objects = << >>
    /\ actor = None
    /\ NoWatcher
    /\ registry = [o \in Objects |-> None]
    /\ effectScopes = << >>
    /\ returned = None
    /\ copy = "part_005"
    /\ NoWatchers
    /\ NoNames
    /\ NoClosure

\* a makeObjectScope that creates a scope on every call
ScopeNeverFound(o) == FALSE

\* `let scope = scopes.get(object); if (!scope) ...`
ScopeFound(o) == registry[o] # None

\* makeObjectScope(o): the stored scope, or a new one that is stored.
MakeObjectScope(o) ==
    /\ IF ScopeFound(o)
       THEN /\ returned' = registry[o]
            /\ UNCHANGED <<registry, effectScopes>>
       ELSE /\ Len(effectScopes) < MaxScopes
            /\ effectScopes' = Append(effectScopes, TRUE)
            /\ registry' = [registry EXCEPT ![o] = Len(effectScopes) + 1]
            /\ returned' = Len(effectScopes) + 1
    /\ last' = "make"
    /\ actor' = o
    /\ UNCHANGED idle

\* a disposeObjectScope that keeps the entry of the stopped scope
EntryKept(o) == registry[o]

\* `scopes.delete(object)`
EntryDeleted(o) == None

\* disposeObjectScope(o): stops the stored scope and deletes the entry;
\* without an entry it does nothing.
DisposeScopeOf(o) ==
    /\ IF registry[o] = None
       THEN UNCHANGED <<registry, effectScopes>>
       ELSE /\ effectScopes' = [effectScopes EXCEPT ![registry[o]] = FALSE]
            /\ registry' = [registry EXCEPT ![o] = EntryDeleted(o)]
    /\ last' = "dispose"
    /\ actor' = o
    /\ UNCHANGED <<idle, returned>>

NextScopes ==
    \/ \E o \in Objects : MakeObjectScope(o)
    \/ \E o \in Objects : DisposeScopeOf(o)

SpecScopes == InitScopes /\ [][NextScopes]_vars

\* ------------------------------------------------------------ dWatch
\* A class with one @dWatch method whose source is a getter function that
\* reads a field of `this`; its instances are constructed one after the
\* other. The decorator is applied once: its `source` is shared by the
\* initializers of all instances.
NotConstructed ==
    [constructed |-> FALSE, value |-> 0, made |-> FALSE, reads |-> None]

InitDWatch ==
    /\ InitObject
    /\ ~isDPromise
    /\ objects = << >>
    /\ actor = None
    /\ NoWatcher
    /\ NoScopes
    /\ copy \in Copies
    /\ sourceFn = None
    /\ watched = [i \in Instances |-> NotConstructed]
    /\ pendingRegs = << >>
    /\ invoked = {}
    /\ NoNames
    /\ NoClosure

\* what a step on the @dWatch watchers leaves alone
still == <<handle, chains, exec, fired, nextReg, idleRegs, lastCall, objects,
           watching, scoping, copy, naming, closure>>

\* `new C()`: the initializer queues the registration of the watcher.
Construct(i) ==
    /\ ~watched[i].constructed
    /\ \A j \in Instances : j < i => watched[j].constructed
    /\ watched' = [watched EXCEPT ![i].constructed = TRUE]
    /\ pendingRegs' = Append(pendingRegs, i)
    /\ invoked' = {}
    /\ last' = "new"
    /\ actor' = i
    /\ UNCHANGED <<still, sourceFn>>

\* fn.bind(i): binding a function that is bound already keeps its `this`.
Bind(fn, i) == IF fn = None THEN i ELSE fn

\* The queued registration of instance i runs. In src/src/index.ts the bound
\* getter is assigned to the decorator's `source`; in part_005 to a local
\* variable. The watcher reads the instance the getter is bound to.
RegisterDWatch ==
    /\ pendingRegs # << >>
    /\ LET i == Head(pendingRegs)
           getter == Bind(sourceFn, i)
       IN  /\ sourceFn' = IF copy = "index.ts" THEN getter ELSE sourceFn
           /\ watched' = [watched EXCEPT ![i].made = TRUE,
                                          ![i].reads = getter]
           /\ actor' = i
    /\ pendingRegs' = Tail(pendingRegs)
    /\ invoked' = {}
    /\ last' = "register"
    /\ UNCHANGED still

\* The watched field of instance i is written: the watchers whose getter
\* reads instance i invoke their callbacks.
WriteField(i) ==
    /\ watched[i].constructed
    /\ watched[i].value < MaxWrites
    /\ watched' = [watched EXCEPT ![i].value = @ + 1]
    /\ invoked' = {j \in Instances : watched[j].made /\ watched[j].reads = i}
    /\ last' = "write"
    /\ actor' = i
    /\ UNCHANGED <<still, sourceFn, pendingRegs>>

NextDWatch ==
    \/ \E i \in Instances : Construct(i)
    \/ RegisterDWatch
    \/ \E i \in Instances : WriteField(i)

SpecDWatch == InitDWatch /\ [][NextDWatch]_vars

\* ------------------------------------------------------------ names
\* The name under which dPromise's initializer assigns the wrapped callable.
\* A name is a sequence of characters.
Chars == {"$", "D", "_", "f"}

\* the names of at most n characters
NamesUpTo(n) == UNION {[1 .. k -> Chars] : k \in 0 .. n}

\* `export const METHOD_PREFIXES = ['$D', '_$D']`
METHOD_PREFIXES == << <<"$", "D">>, <<"_", "$", "D">> >>

\* name.startsWith(prefix)
StartsWith(name, prefix) ==
    /\ Len(prefix) <= Len(name)
    /\ SubSeq(name, 1, Len(prefix)) = prefix

\* name.slice(n)
Slice(name, n) == SubSeq(name, n + 1, Len(name))

\* part_005: `for (const prefix of METHOD_PREFIXES) { if
\* (!name.startsWith(prefix)) continue; name = name.slice(prefix.length);
\* break }`: the first prefix the name starts with is removed.
StripFirstMatch(name) ==
    LET matching == {p \in DOMAIN METHOD_PREFIXES :
                        StartsWith(name, METHOD_PREFIXES[p])}
    IN  IF matching = {} THEN name
        ELSE LET p == CHOOSE q \in matching : \A o \in matching : q <= o
             IN  Slice(name, Len(METHOD_PREFIXES[p]))

\* src/src/index.ts: `if (METHOD_PREFIXES.some((prefix) =>
\* name.startsWith(prefix))) name = name.slice(METHOD_PREFIXES[0].length)`
StripLengthOfFirst(name) ==
    IF \E p \in DOMAIN METHOD_PREFIXES : StartsWith(name, METHOD_PREFIXES[p])
    THEN Slice(name, Len(METHOD_PREFIXES[1]))
    ELSE name

\* the name copy c of the decorator assigns the wrapped callable to
AssignedName(c, name) ==
    IF c = "index.ts" THEN StripLengthOfFirst(name) ELSE StripFirstMatch(name)

InitNames ==
    /\ InitObject
    /\ ~isDPromise
    /\ objects = << >>
    /\ actor = None
    /\ NoWatcher
    /\ NoScopes
    /\ NoWatchers
    /\ copy \in Copies
    /\ methodName \in NamesUpTo(MaxLen)
    /\ property = NotAssigned
    /\ lookup = None
    /\ NoClosure

\* The initializer runs: `this[name] = makePromise`.
AssignCallable ==
    /\ ~property.done
    /\ property' = [done |-> TRUE, name |-> AssignedName(copy, methodName)]
    /\ UNCHANGED <<handle, chains, exec, fired, nextReg, idleRegs, lastCall,
                   last, instances, watching, scoping, copy, watchers,
                   methodName, lookup, closure>>

NextNames == AssignCallable

SpecNames == InitNames /\ [][NextNames]_vars

\* ------------------------------------------------------------ name-keyed API
\* src/src/index.ts keeps the promise object of a wrapped callable in
\* `promiseMap`, under the instance and a callable, and its inspection
\* functions take the instance and a property name. Its makePromise goes
\* through the steps of CallOn .. FinallyOn; the promise object is created by
\* the first invocation.
DeclaredNames == {<<"f">>, <<"$", "D", "f">>}

InitKeyed ==
    /\ InitObject
    /\ ~isDPromise
    /\ objects = [k \in Callables |-> InitialObject(FALSE)]
    /\ actor = None
    /\ NoWatcher
    /\ NoScopes
    /\ NoWatchers
    /\ copy = "index.ts"
    /\ methodName \in DeclaredNames
    /\ property = [done |-> TRUE, name |-> AssignedName(copy, methodName)]
    /\ lookup = None
    /\ NoClosure

\* instance[name]: the wrapped callable is an own property of the instance,
\* the decorated method a property of its prototype.
PropertyOf(name) ==
    IF name = property.name THEN "makePromise"
    ELSE IF name = methodName THEN "target"
    ELSE "undefined"

\* makePromise passes the decorated method to makePromiseObject, which
\* passes it to setPromiseObject: `promiseMap.get(context)?.set(target,
\* promiseObject)`
StoredUnder == "target"

\* the callables under which promiseMap holds a promise object of instance i
KeysOf(i) == IF objects[MethodOf(i)].isDPromise THEN {StoredUnder} ELSE {}

Getters == {"isPending", "result", "error"}

\* what the promise object of instance i gives for a getter
Read(i, what) ==
    IF what = "isPending" THEN <<what, objects[MethodOf(i)].isPending>>
    ELSE IF what = "result" THEN <<what, objects[MethodOf(i)].result>>
    ELSE <<what, objects[MethodOf(i)].error>>

\* isPromisePending / getPromiseResult / getPromiseError (instance, name):
\* getPromiseData looks the promise object up under instance[name] and the
\* function throws 'Promise object not found' without one.
Inspect(i, name, what) ==
    /\ lookup' = IF PropertyOf(name) \in KeysOf(i)
                 THEN [name |-> name, threw |-> FALSE, gave |-> Read(i, what)]
                 ELSE [name |-> name, threw |-> TRUE, gave |-> <<what>>]
    /\ last' = "inspect"
    /\ actor' = i
    /\ UNCHANGED <<handle, chains, exec, fired, nextReg, idleRegs, lastCall,
                   objects, watching, scoping, copy, watchers, methodName,
                   property, closure>>

NextKeyed ==
    \/ \E i \in Instances, a \in Args, throws \in BOOLEAN : CallOn(i, a, throws)
    \/ \E i \in Instances, ok \in BOOLEAN : OpSettlesOn(i, ok)
    \/ \E i \in Instances : ThenOn(i)
    \/ \E i \in Instances : CatchOn(i)
    \/ \E i \in Instances : FinallyOn(i)
    \/ \E i \in Instances, what \in Getters :
          \/ Inspect(i, methodName, what)
          \/ Inspect(i, property.name, what)

SpecKeyed == InitKeyed /\ [][NextKeyed]_vars

\* ======================================================================
\* Properties
\* ======================================================================
Live == {c \in ChainIds : chains[c].op # "gone"}
Latest == Len(chains)

\* a step in which a caller invokes makePromise
IsCallStep == exec = None /\ last' \in {"call", "executor"}

\* the values a call with arguments a can settle with
Outcomes(a) == {Fulfilled(OpValue(a)), Rejected(OpError(a)), Rejected(AbortError)}

C2_PendingPhase ==
    /\ [][(exec = None /\ last' = "executor") => (~isPending /\ isPending')]_vars
    /\ [](last = "call" => isPending)
    /\ [](\A c \in Live : (chains[c].op # "sync" /\ ~chains[c].finalized) => isPending)
    /\ []((Latest > 0 /\ Settled(chains[Latest].p3)) => ~isPending)

\* a call whose method threw synchronously has settled
C2_Witness ==
    /\ Latest > 0
    /\ chains[Latest].op = "threw"
    /\ Settled(chains[Latest].p3)
    /\ ~isPending

\* C3 (abort rejects), as claimed: whenever abort() ran while isPending was
\* TRUE, the promise of the call in flight rejects with AbortError, and
\* isPending is FALSE when the rejection is observed.
C3_AbortRejects ==
    \A c \in Live :
        (chains[c].aborted /\ Settled(chains[c].p3)) =>
            /\ chains[c].p3 = Rejected(AbortError)
            /\ (c = Latest => ~isPending)

\* strictly increasing: registration ids in registration order
Ascending(seq) == \A i, j \in DOMAIN seq : i < j => seq[i] < seq[j]

\* C4 (abort notification): abort() while pending invokes the listeners
\* registered at that moment, in registration order, and empties the list;
\* no registration is ever invoked twice.
C4_AbortNotifies ==
    /\ [][(last' = "abort" /\ isDPromise /\ isPending) =>
            (fired' = fired \o abortListeners /\ abortListeners' = << >>)]_vars
    /\ [](Ascending(abortListeners) /\ Ascending(fired))

\* two listeners were invoked by one abort() of a pending call
C4_Witness ==
    /\ last = "abort"
    /\ isPending
    /\ fired = <<1, 2>>
    /\ abortListeners = << >>

\* the step in which the finally-handler of chain c runs
FinallyRuns(c) == ~chains[c].finalized /\ chains'[c].finalized

\* C5 (successful settlement): when the decorated method resolves with v and
\* no abort() was issued, the returned promise fulfils with v; the finally
\* handler clears the in-flight promise, the listeners and the pending flag;
\* and when the awaiters resume (no later call started) result = v, error is
\* absent, isPending is FALSE and no promise is in flight.
C5_Success ==
    /\ [](\A c \in Live :
            (chains[c].op = "resolved" /\ ~chains[c].aborted /\ Settled(chains[c].p3)) =>
                /\ chains[c].p3 = Fulfilled(OpValue(chains[c].args))
                /\ (c = Latest =>
                        /\ result = OpValue(chains[c].args)
                        /\ error = Undefined
                        /\ ~isPending
                        /\ promise = None
                        /\ resolve = None
                        /\ reject = None))
    /\ [][\A c \in Live :
            (FinallyRuns(c) /\ chains[c].p2.st = "fulfilled") =>
                (abortListeners' = << >> /\ promise' = None /\ ~isPending')]_vars

\* a call that resolved with a value has settled and left it in result
C5_Witness ==
    /\ Latest > 0
    /\ chains[Latest].op = "resolved"
    /\ ~chains[Latest].aborted
    /\ chains[Latest].p3 = Fulfilled(OpValue(1))
    /\ result = OpValue(1)

\* C6 (failure settlement): when the decorated method fails with err and no
\* abort() was issued, the returned promise rejects with err; the finally
\* handler clears the in-flight promise, the listeners and the pending flag;
\* and when the awaiters resume (no later call started) error = err, result
\* is absent, isPending is FALSE and no promise is in flight.
C6_Failure ==
    /\ [](\A c \in Live :
            (chains[c].op \in {"rejected", "threw"} /\ ~chains[c].aborted
                /\ Settled(chains[c].p3)) =>
                /\ chains[c].p3 = Rejected(OpError(chains[c].args))
                /\ (c = Latest =>
                        /\ error = OpError(chains[c].args)
                        /\ result = Undefined
                        /\ ~isPending
                        /\ promise = None
                        /\ resolve = None
                        /\ reject = None))
    /\ [][\A c \in Live :
            (FinallyRuns(c) /\ chains[c].p2.st = "rejected") =>
                (abortListeners' = << >> /\ promise' = None /\ ~isPending')]_vars

\* a call that rejected has settled and left its error in error
C6_Witness ==
    /\ Latest > 0
    /\ chains[Latest].op = "rejected"
    /\ ~chains[Latest].aborted
    /\ chains[Latest].p3 = Rejected(OpError(1))
    /\ error = OpError(1)

\* C7 (dropped arguments): a makePromise(args2) made while a call(args1) is
\* in flight does not invoke the decorated method (no chain is created, the
\* chain in flight keeps args1), and the promise it got settles with an
\* outcome computed from args1.
C7_DroppedArgs ==
    /\ [][(IsCallStep /\ promise # None) =>
            (chains' = chains /\ lastCall'.ret = promise)]_vars
    /\ [](\A c \in Live :
            (lastCall.ret = c /\ Settled(chains[c].p3)) =>
                chains[c].p3 \in Outcomes(chains[c].args))

\* the promise a call with argument 0 got has fulfilled with the value
\* computed from argument 1, the argument of the call it was coalesced into
C7_Witness ==
    /\ last = "other"
    /\ lastCall.args = 0
    /\ lastCall.ret = 1
    /\ chains[1].op # "gone"
    /\ chains[1].args = 1
    /\ chains[1].p3 = Fulfilled(OpValue(1))

\* C8 (fresh call clears stale state): from the return of a makePromise that
\* started a call until that call's own handlers write them, result and error
\* are absent, and the call settles with its own outcome.
C8_FreshCallClears ==
    \A c \in Live :
        (promise = c /\ exec = None) =>
            /\ (~Settled(chains[c].p1) => result = Undefined)
            /\ (~Settled(chains[c].p2) => error = Undefined)
            /\ (Settled(chains[c].p0) => chains[c].p0 \in Outcomes(chains[c].args))

\* a second call is in flight although the first one failed with an error
C8_Witness ==
    /\ Latest = 2
    /\ promise = 2
    /\ chains[1].op = "rejected"
    /\ chains[1].p2 = Rejected(OpError(1))
    /\ chains[1].finalized
    /\ error = Undefined
    /\ result = Undefined

\* the handle is idle after at least one call
IdleAfterCall == exec = None /\ promise = None /\ Latest > 0

\* C9 (result/error mutual exclusion), as claimed: after any settlement
\* exactly one of result and error is present.
C9_ExactlyOne == IdleAfterCall => (Present(result) # Present(error))

\* C9 as amended: after any settlement result and error are never both
\* present, and exactly one of them is present unless the call settled with
\* the value undefined.
C9_AtMostOne ==
    IdleAfterCall =>
        /\ ~(Present(result) /\ Present(error))
        /\ (chains[Latest].p2.val # Undefined => (Present(result) # Present(error)))

\* a failed second call after a successful first one: only error is present
C9_Witness ==
    /\ IdleAfterCall
    /\ Latest = 2
    /\ Present(error)
    /\ ~Present(result)
    /\ chains[2].p2.st = "rejected"

\* C10, as claimed: in every state isPending is TRUE exactly when a promise
\* is stored as in flight.
C10_PendingIffInFlight == isPending <=> (promise # None)

Range(seq) == {seq[i] : i \in DOMAIN seq}

\* C11, as claimed: in every state the callback list is non-empty only while
\* a promise is stored as in flight.
C11_ListenersOnlyInFlight == abortListeners # << >> => promise # None

\* C11 as amended: while the handle is idle (no call in flight, none being
\* started) the list holds only callbacks registered on the idle handle since
\* the latest settlement; every settlement empties it, so no callback
\* registered before or during a call is left in it afterwards.
C11_IdleListeners == Idle => \A r \in Range(abortListeners) : r \in idleRegs

\* idle after a call: the callback registered for that call is gone without
\* having been invoked, the one registered afterwards is in the list
C11_Witness ==
    /\ IdleAfterCall
    /\ nextReg = 2
    /\ fired = << >>
    /\ abortListeners = <<2>>
    /\ idleRegs = {2}

\* the callbacks invoked in a step, and the registrations made so far
NewlyFired == {fired'[i] : i \in (Len(fired) + 1) .. Len(fired')}
Registered == 1 .. nextReg

\* C12 (listener lifecycle): the finally-handler of a call that was not
\* aborted leaves the list empty, and a callback that is no longer in the
\* list never comes back into it and is never invoked, whichever call is
\* aborted later.
C12_ListenerLifecycle ==
    /\ [][\A c \in Live :
            (FinallyRuns(c) /\ ~chains[c].aborted) => abortListeners' = << >>]_vars
    /\ [][\A r \in Registered :
            r \notin Range(abortListeners) =>
                (r \notin Range(abortListeners') /\ r \notin NewlyFired)]_vars

\* the first call resolved and settled without abort, discarding callback 1;
\* the abort of the second call has invoked callback 2 only
C12_Witness ==
    /\ Latest = 2
    /\ chains[1].op = "resolved"
    /\ ~chains[1].aborted
    /\ chains[1].finalized
    /\ last = "abort"
    /\ isPending
    /\ nextReg = 2
    /\ fired = <<2>>

\* the callbacks registered on the idle handle that are still in the list
Waiting == idleRegs \cap Range(abortListeners)

\* C13 (pre-registered callback): a callback registered while the handle is
\* idle is, until the next call settles, either still in the list or has been
\* invoked; and an abort() while pending invokes every such callback of the
\* list.  So the first abort() of the next call while it is pending invokes it.
C13_PreRegisteredFires ==
    /\ [](\A r \in idleRegs : r \in Range(abortListeners) \/ r \in Range(fired))
    /\ [][(last' = "abort" /\ isDPromise /\ isPending) =>
            \A r \in Waiting : r \in NewlyFired]_vars

\* callback 1 was registered before the first call started and the abort of
\* that call, while pending, has invoked it
C13_Witness ==
    /\ Latest = 1
    /\ last = "abort"
    /\ isPending
    /\ idleRegs = {1}
    /\ fired = <<1>>

\* C14 (abort when idle): an abort() on a handle that is not pending invokes
\* no callback, rejects nothing and leaves pending, result, error, the
\* in-flight promise and the callback list as they are.
C14_AbortWhenIdle ==
    [][(last' = "abort" /\ isDPromise /\ ~isPending) =>
        UNCHANGED <<handle, chains, fired>>]_vars

\* abort() ran on the idle handle after a call, with a callback registered:
\* the callback is still registered and was not invoked
C14_Witness ==
    /\ last = "abort"
    /\ IdleAfterCall
    /\ ~isPending
    /\ abortListeners # << >>
    /\ fired = << >>

\* C17 (AbortError only by abort): a promise of a call is rejected with
\* AbortError only if abort() ran on the handle while that call was pending;
\* the failure of a call that was not aborted is its original error, and an
\* original error that has rejected the call is what the returned promise
\* rejects with, also when abort() comes after it.
C17_AbortErrorOnlyByAbort ==
    \A c \in Live :
        /\ (\E p \in {chains[c].p0, chains[c].p1, chains[c].p2, chains[c].p3} :
                p = Rejected(AbortError)) => chains[c].aborted
        /\ (chains[c].op \in {"rejected", "threw"} /\ ~chains[c].aborted) =>
                chains[c].p0 = Rejected(OpError(chains[c].args))
        /\ (chains[c].p0 = Rejected(OpError(chains[c].args)) /\ Settled(chains[c].p3)) =>
                chains[c].p3 = Rejected(OpError(chains[c].args))

\* the second call was aborted while pending and its promise has rejected
\* with AbortError; the failure of its method came after the abort
C17_Witness ==
    /\ Latest = 2
    /\ chains[2].aborted
    /\ chains[2].op = "rejected"
    /\ chains[2].p3 = Rejected(AbortError)
    /\ error = AbortError

Starting == {c \in ChainIds : chains[c].op = "sync"}

\* C18, as claimed: starting a call is atomic with respect to other calls on
\* the handle.  No makePromise invocation executes between the check that
\* found no promise in flight and the assignment that records the new one,
\* so never is a second decorated-method invocation started while one is
\* being started.
C18_AtomicStart ==
    /\ [][exec # None =>
            ~(last' = "executor" \/ (last' = "call" /\ exec' = exec))]_vars
    /\ [](Cardinality(Starting) <= 1)

\* the promise object of instance j and the chain of its latest call
ObjectOf(j) == objects[MethodOf(j)]

\* the in-flight promise of instance j: the promise of its callable's chain
FutureOf(j) == <<MethodOf(j), ObjectOf(j).promise>>

InFlightOn(j) == ObjectOf(j).promise # None

\* C19: the call state is per instance.  A call, an onAbort, an abort or a
\* settlement step on the method of one instance never changes pending,
\* result, error, the in-flight promise or the abort listeners of the same
\* method on another instance, nor the chain of its call; a call joins only a call in
\* flight on its own instance, and otherwise starts an invocation of its own;
\* two instances in flight hold different promises.
C19_PerInstance ==
    /\ [][\A j \in Instances : j # actor' => ObjectOf(j)' = ObjectOf(j)]_vars
    /\ [][last' = "joined" => InFlightOn(actor') /\ UNCHANGED objects]_vars
    /\ [][last' = "started" =>
            /\ ~InFlightOn(actor')
            /\ objects'[MethodOf(actor')].chain.op \in {"running", "threw"}
            /\ objects'[MethodOf(actor')].isPending]_vars
    /\ [](\A i, j \in Instances :
            (i # j /\ InFlightOn(i) /\ InFlightOn(j)) =>
                FutureOf(i) # FutureOf(j))

\* instance 1 is in flight with a listener registered, while instance 2,
\* called with another argument, has settled with its own result
C19_Witness ==
    /\ actor = 2
    /\ InFlightOn(1)
    /\ objects[MethodOf(1)].isPending
    /\ objects[MethodOf(1)].chain.args = 0
    /\ objects[MethodOf(1)].abortListeners = <<1>>
    /\ ~InFlightOn(2)
    /\ objects[MethodOf(2)].result = OpValue(1)
    /\ objects[MethodOf(2)].abortListeners = << >>

\* C20, as claimed: after disposeObjectScope(instance) has returned, the
\* @dEffect or @dWatch callback of the instance never runs again, whatever
\* the order of the construction's queued registration, the dispose and the
\* writes.
C20_DisposeCleans == disposedAt # NotDisposed => runs = disposedAt

\* C21, as claimed: pauseWatcher suspends the callback at whatever point
\* after construction it is called.  From its return until resumeWatcher the
\* callback is invoked only for what happened before the pause (the run a
\* queued registration makes, the job a change had queued), never for a
\* dependency change made after it.
C21_PauseSuspends == pausedAt # NotPaused => runs <= pausedAt

\* C22, as claimed: after stopWatcher(instance, name) has returned the
\* callback is never invoked again, whatever writes follow.
C22_StopSilences == stoppedAt # NotStopped => runs = stoppedAt

\* the scopes that were created
ScopeIds == 1 .. Len(effectScopes)

\* C23: makeObjectScope(o) returns the scope stored for o, which stays the
\* same from call to call as long as o is not disposed in between (only a
\* dispose of o itself changes the entry of an object that has one), and the
\* scope it returns is active; two different objects never share a scope.
C23_ScopeIdentity ==
    /\ [][(last' = "make") => /\ returned' = registry'[actor']
                              /\ effectScopes'[returned']
                              /\ (registry[actor'] # None =>
                                    returned' = registry[actor'])]_vars
    /\ [][\A o \in Objects :
            (registry[o] # None /\ registry'[o] # registry[o]) =>
                (last' = "dispose" /\ actor' = o)]_vars
    /\ [](\A o, q \in Objects :
            (o # q /\ registry[o] # None) => registry[o] # registry[q])

\* makeObjectScope(1) was called twice, with a call for object 2 in between,
\* and returned the scope of object 1 again
C23_Witness ==
    /\ last = "make"
    /\ actor = 1
    /\ registry[2] # None
    /\ returned = registry[1]
    /\ returned < registry[2]

\* C24: disposeObjectScope(o) stops the scope stored for o and forgets it,
\* and touches no other scope; on an object without scope it changes
\* nothing.  A scope that makeObjectScope creates is none of the scopes
\* created before, so the scope returned after a dispose differs from the
\* disposed one, and a stored scope is never a stopped one.
C24_DisposeForgets ==
    /\ [][(last' = "dispose") =>
            /\ registry'[actor'] = None
            /\ \A o \in Objects \ {actor'} : registry'[o] = registry[o]
            /\ returned' = returned
            /\ Len(effectScopes') = Len(effectScopes)
            /\ \A i \in ScopeIds :
                 effectScopes'[i] =
                    (effectScopes[i] /\ i # registry[actor'])]_vars
    /\ [][(last' = "make" /\ registry[actor'] = None) =>
            returned' \notin ScopeIds]_vars
    /\ [](\A o \in Objects : registry[o] # None => effectScopes[registry[o]])

\* object 1 was disposed and given a new scope, while object 2 keeps its own
C24_Witness ==
    /\ last = "make"
    /\ actor = 1
    /\ returned = registry[1]
    /\ registry[2] # None
    /\ registry[2] < registry[1]
    /\ \E i \in ScopeIds : ~effectScopes[i]

\* C25, as claimed: in both copies of the decorator the @dWatch watchers of
\* the instances of one class are independent.  A change of the watched
\* source of an instance whose watcher is registered invokes the callback of
\* that instance, and it invokes the callback of no other instance.
C25_IndependentWatchers ==
    last = "write" =>
        /\ invoked \subseteq {actor}
        /\ watched[actor].made => actor \in invoked

\* the watcher is registered, active and not paused
Watching == watcher.made /\ watcher.active /\ ~watcher.paused

\* the first invocation of the @dEffect callback happens in this step
FirstRun == decl.kind = "dEffect" /\ runs = 0 /\ runs' = 1

\* no invocation happens before the queued registration has run (none
\* during the constructor), the @dEffect callback is invoked eventually, and
\* a watcher that has not seen the latest write sees it eventually unless it
\* is paused, stopped or disposed
C26_Runs ==
    /\ []((microtasks # << >> /\ Head(microtasks) = "register") => runs = 0)
    /\ [](decl.kind = "dEffect" => <>(runs >= 1))
    /\ []((decl.kind = "dEffect" /\ Watching /\ watcher.seen # source)
            => <>(watcher.seen = source \/ ~Watching))

Unprefixed(name) ==
    IF StartsWith(name, <<"$", "D">>) THEN SubSeq(name, 3, Len(name))
    ELSE IF StartsWith(name, <<"_", "$", "D">>) THEN SubSeq(name, 4, Len(name))
    ELSE name

\* C27, as claimed: in both copies of dPromise the wrapped callable is
\* assigned under the method's name with exactly its reserved prefix ('$D'
\* or '_$D') removed, and under the unchanged name when it has none.
C27_PrefixRemoved == property.done => property.name = Unprefixed(methodName)

\* C28, as claimed: in src/src/index.ts the inspection functions called with
\* the instance and the unprefixed name of its @dPromise method do not
\* throw, and give what the promise object that instance.m() updates holds:
\* pending, the result and the error of that instance.
C28_KeyedAccess ==
    (last = "inspect" /\ lookup.name = property.name) =>
        /\ ~lookup.threw
        /\ lookup.gave = Read(actor, lookup.gave[1])

\* a step in which the decorated method's promise of call c settles after
\* call c was aborted and a later call was started
StaleSettlement(c) ==
    /\ c \in ChainIds
    /\ c < Len(chains)
    /\ chains[c].aborted
    /\ chains[c].op = "running"
    /\ chains'[c].op # "running"

\* C29: when the decorated method's promise of an aborted call settles
\* (fulfils or rejects) after a later call was started, pending, result and
\* error of the handle, the stored promise and its resolve/reject stay as
\* they are, and no promise of the later call's chain settles.
C29_StaleIgnored ==
    [][\A c \in 1 .. MaxCalls :
          StaleSettlement(c) =>
              /\ UNCHANGED <<isPending, result, error, promise, resolve, reject>>
              /\ \A d \in (c + 1) .. Len(chains) : chains'[d] = chains[d]]_vars

\* the method's promise of the aborted call 1 has just settled while call 2,
\* started after the abort, is in flight with its method still running
C29_Witness ==
    /\ last = "settle"
    /\ Len(chains) = 2
    /\ chains[1].aborted
    /\ chains[1].p0 = Rejected(AbortError)
    /\ chains[1].op \in {"resolved", "rejected"}
    /\ chains[2].op = "running"
    /\ promise = 2
    /\ isPending

\* C30, as claimed: in every reachable state in which the result or the
\* error getter gives a present value, isPending is false and no in-flight
\* promise is stored.
C30_SettledWhenObserved ==
    (Present(ResultGetter) \/ Present(ErrorGetter)) =>
        (~IsPendingGetter /\ promise = None)

\* C33, as claimed: when a registered listener throws during abort() of a
\* pending call, the promise of the call in flight is rejected with
\* AbortError and the list of listeners is emptied all the same.
C33_ThrowingListener ==
    [][last' = "abortThrew" =>
          /\ abortListeners' = << >>
          /\ reject # None => chains'[reject].p0 = Rejected(AbortError)]_vars

\* the handle at rest: not pending, no promise stored, no resolve or reject
\* kept, no listener registered
IdleHandle ==
    /\ ~isPending
    /\ promise = None
    /\ resolve = None
    /\ reject = None
    /\ abortListeners = << >>

\* the decorated method of call c has settled or thrown, or abort() was
\* called on call c, and the finally handler of c has not run yet
SettledOrAborted(c) ==
    /\ c \in ChainIds
    /\ ~chains[c].finalized
    /\ \/ chains[c].op \in {"resolved", "rejected", "threw"}
       \/ chains[c].aborted
       \/ last = "abortThrew" /\ reject = c

\* C31, as claimed: once the decorated method of a started call has settled,
\* or abort() was called on it, the handle eventually is idle again.
C31_ReturnsToIdle ==
    \A c \in 1 .. MaxCalls : SettledOrAborted(c) ~> IdleHandle

\* a step in which makePromise is invoked while the stored promise is the
\* one of a call on which abort() ran while it was pending, and whose
\* finally handler has not run
CallAfterAbort ==
    /\ exec = None
    /\ last' = "call"
    /\ promise # None
    /\ chains[promise].aborted

\* C32, as claimed: a makePromise invoked after abort() returned and before
\* the settlement handlers of the aborted call have run starts no new call
\* and returns the stored promise, which is rejected with AbortError.
C32_JoinsAborted ==
    [][CallAfterAbort =>
          /\ chains' = chains
          /\ lastCall'.ret = promise
          /\ chains[promise].p0 = Rejected(AbortError)]_vars

\* makePromise is invoked for the first time on a lazily initialised wrapped
\* callable to which initPromiseObject was applied
FirstCallAfterInit ==
    /\ promiseObject = None
    /\ isDPromise
    /\ last' \in {"executor", "call", "callThrew"}

\* C34, as claimed: the first invocation of a lazily initialised wrapped
\* callable to which initPromiseObject was applied does not throw and starts
\* a call, and pending, result and error of the callable are what that call
\* writes.
C34_InitThenCall ==
    [][FirstCallAfterInit =>
          /\ last' = "executor"
          /\ Len(chains') = Len(chains) + 1
          /\ isPending'
          /\ resolve' = Len(chains')]_vars
====
